---------------------------- MODULE Spec2Model ----------------------------
(***************************************************************************)
(* Model of src/ldd.c: a loadable kernel module that registers the proc    *)
(* entry /proc/ldd_demo_driver and serves reads and writes of one static   *)
(* C-string buffer, message_buffer[MAX_INPUT_SIZE + 1].                    *)
(*                                                                         *)
(* Spec     : module load/unload and the two handlers, each run to         *)
(*            completion (one action per handler call).                    *)
(* SpecConc : one read handler and one write handler running concurrently, *)
(*            interleaved at the granularity of single byte accesses.      *)
(***************************************************************************)
EXTENDS Integers, Sequences, FiniteSets, TLC

(* ------------------------------ constants ------------------------------ *)

\* #define MAX_INPUT_SIZE 128
MAX_INPUT_SIZE == 128

\* errno values used by the handlers and by mydrv_init
EFAULT == 14
ENOMEM == 12

\* the string terminator '\0'
NUL == 0

\* the initializer of message_buffer: "Hello from ldd demo driver entry!\n"
Greeting ==
  << 72, 101, 108, 108, 111, 32, 102, 114, 111, 109, 32, 108, 100, 100, 32,
     100, 101, 109, 111, 32, 100, 114, 105, 118, 101, 114, 32, 101, 110, 116,
     114, 121, 33, 10 >>

(* -------------------------------- bounds ------------------------------- *)

\* user bytes are drawn from 1..MaxByte (plus NUL where a NUL is embedded)
MaxByte == 2
\* a short transfer length (bytes)
ShortLen == 2
\* how far beyond MAX_INPUT_SIZE the largest requested count goes
OverLen == 1
\* latest byte index at which a user-space copy is made to fault
MaxFault == 0

(* ------------------------------- inputs -------------------------------- *)

\* byte i of the user pattern `fill`: non-NUL and position dependent
PatByte(fill, i) == 1 + ((fill + i) % MaxByte)

\* byte i of the user data (fill, z): NUL at index z, else the pattern
UserByte(fill, z, i) == IF i = z THEN NUL ELSE PatByte(fill, i)

\* user data of cnt bytes; byte z is NUL when 0 <= z < cnt
UserData(cnt, fill, z) == [i \in 1..cnt |-> UserByte(fill, z, i - 1)]

WriteCounts == {0, ShortLen, MAX_INPUT_SIZE, MAX_INPUT_SIZE + OverLen}

ReadCounts == {0, ShortLen, MAX_INPUT_SIZE, MAX_INPUT_SIZE + OverLen}

Fills == 0..(MaxByte - 1)

\* where a NUL byte may sit in the user data (-1: none)
NulAt == {-1, 1}

\* the byte index at which the user-space copy faults (-1: no fault)
Faults == {-1} \cup (0..MaxFault)

\* the inputs of the concurrent handlers: << count, fill, z >> of a write,
\* and the count of a read
ConcWriteData ==
  {<< cnt, 0, -1 >> : cnt \in {0, ShortLen, MAX_INPUT_SIZE + OverLen}}

ConcReadCounts == {ShortLen, MAX_INPUT_SIZE}

(* -------------------------------- state -------------------------------- *)

VARIABLES
  loaded,             \* the module is resident (init returned 0, no exit yet)
  custom_proc_node,   \* static struct proc_dir_entry *custom_proc_node
  proc_entry,         \* /proc/ldd_demo_driver exists in the proc filesystem
  removes,            \* proc_remove calls since the last successful proc_create
  init_ret,           \* value returned by the last mydrv_init
  message_buffer,     \* static char message_buffer[MAX_INPUT_SIZE + 1]
  file_open,          \* a struct file on the entry is open
  offset,             \* that file's position (*offset)
  op,                 \* the operation performed last
  ret,                \* the value the last handler call returned
  count,              \* the count argument of the last handler call
  user_data,          \* the user bytes handed to the most recent write
  write_ok,           \* the most recent write since load succeeded
  user_space_buffer,  \* bytes the last read stored into the user's buffer
  stores,             \* message_buffer indices the last write stored to
  uncopied,           \* what copy_to_user/copy_from_user returned in the last call
  received,           \* reads that returned > 0 on the open file since the
                      \* last open or write
  \* --- the concurrent read handler (SpecConc) ---
  r_pc,               \* "idle", "strlen" (scanning) or "copy" (copy_to_user)
  r_count,            \* its count argument
  r_i,                \* strlen: index of the byte examined next
  r_len,              \* size_t len (-1 until strlen has returned)
  r_j,                \* copy_to_user: index of the byte copied next
  r_ret,              \* its return value
  r_scanned,          \* highest message_buffer index strlen has loaded (-1: none)
  r_copied,           \* highest message_buffer index copied out (-1: none)
  \* --- the concurrent write handler (SpecConc) ---
  w_pc,               \* "idle", "copy" (copy_from_user) or "term" (line 91)
  w_data,             \* << count, fill, z >>: the user data, UserData(count, fill, z)
  w_n,                \* count after truncation
  w_k,                \* copy_from_user: index of the byte stored next
  w_ret,              \* its return value
  w_stored            \* highest message_buffer index it has stored to (-1: none)

vars ==
  << loaded, custom_proc_node, proc_entry, removes, init_ret, message_buffer,
     file_open, offset, op, ret, count, user_data, write_ok,
     user_space_buffer, stores, uncopied, received,
     r_pc, r_count, r_i, r_len, r_j, r_ret, r_scanned, r_copied,
     w_pc, w_data, w_n, w_k, w_ret, w_stored >>

\* the state of the two concurrent handlers
readervars == << r_pc, r_count, r_i, r_len, r_j, r_ret, r_scanned, r_copied >>
writervars == << w_pc, w_data, w_n, w_k, w_ret, w_stored >>
concvars == << readervars, writervars >>

\* the state the run-to-completion actions record
seqvars ==
  << loaded, custom_proc_node, proc_entry, removes, init_ret, file_open,
     offset, op, ret, count, user_data, write_ok, user_space_buffer, stores,
     uncopied, received >>

BufIdx == 0..MAX_INPUT_SIZE

\* static char message_buffer[MAX_INPUT_SIZE + 1] = "Hello ...\n";
\* the bytes after the initializer are zero
InitialBuffer ==
  [i \in BufIdx |-> IF i < Len(Greeting) THEN Greeting[i + 1] ELSE NUL]

(* ------------------------------- helpers ------------------------------- *)

\* a byte read at index i of the array; an index past the array reads
\* whatever follows it in memory, modelled as the non-NUL value -1
LoadByte(buf, i) == IF i \in DOMAIN buf THEN buf[i] ELSE -1

\* a byte store at index i; a store past the array lands outside it
StoreByte(buf, i, b) == IF i \in DOMAIN buf THEN [buf EXCEPT ![i] = b] ELSE buf

\* strlen: the number of bytes before the first NUL, i.e. the least index
\* holding NUL.  The scan does not stop at the end of the array;
\* MAX_INPUT_SIZE + 1 stands for a length that ran past it.
strlen(buf) ==
  LET nuls == {i \in DOMAIN buf : buf[i] = NUL}
  IN  IF nuls = {} THEN MAX_INPUT_SIZE + 1
      ELSE CHOOSE n \in nuls : \A j \in nuls : n <= j

\* number of bytes a user-space copy of n bytes leaves uncopied when the
\* access faults at byte index `fault` (the return value of copy_*_user)
Uncopied(n, fault) == IF fault \in 0..(n - 1) THEN n - fault ELSE 0

\* mutant: the copy drops the last byte it was asked for
copy_from_user_short(to, from, n, left) ==
  [i \in DOMAIN to |->
     IF i < n - left - 1 THEN from[i + 1]
     ELSE IF i < n THEN NUL
     ELSE to[i]]

\* copy_from_user(to, from, n): bytes 0..n-left-1 come from the user, and
\* the kernel zero-fills the `left` bytes it could not copy
copy_from_user(to, from, n, left) ==
  [i \in DOMAIN to |->
     IF i < n - left THEN from[i + 1]
     ELSE IF i < n THEN NUL
     ELSE to[i]]

\* copy_to_user(to, from, n): the n-left bytes that reach the user
copy_to_user(from, n, left) ==
  [i \in 1..(n - left) |-> LoadByte(from, i - 1)]


(* --------------------------- module lifecycle -------------------------- *)

Init ==
  /\ loaded = FALSE
  /\ custom_proc_node = "NULL"
  /\ proc_entry = FALSE
  /\ removes = 0
  /\ init_ret = 0
  /\ message_buffer = InitialBuffer
  /\ file_open = FALSE
  /\ offset = 0
  /\ op = "none"
  /\ ret = 0
  /\ count = 0
  /\ user_data = << >>
  /\ write_ok = FALSE
  /\ user_space_buffer = << >>
  /\ stores = {}
  /\ uncopied = 0
  /\ received = 0
  /\ r_pc = "idle"
  /\ r_count = 0
  /\ r_i = 0
  /\ r_len = -1
  /\ r_j = 0
  /\ r_ret = 0
  /\ r_scanned = -1
  /\ r_copied = -1
  /\ w_pc = "idle"
  /\ w_data = << 0, 0, -1 >>
  /\ w_n = 0
  /\ w_k = 0
  /\ w_ret = 0
  /\ w_stored = -1

\* no handler ran in this step
NoCall ==
  /\ ret' = 0
  /\ count' = 0
  /\ user_space_buffer' = << >>
  /\ stores' = {}
  /\ uncopied' = 0

\* insmod: the module image is loaded (message_buffer takes its initializer)
\* and mydrv_init runs; `created` is whether proc_create returns a node.
\* A non-zero return aborts the load.
mydrv_init(created) ==
  /\ ~loaded
  /\ message_buffer' = InitialBuffer
  /\ IF created
       THEN /\ custom_proc_node' = "node"
            /\ proc_entry' = TRUE
            /\ removes' = 0
            /\ init_ret' = 0
            /\ loaded' = TRUE
       ELSE /\ custom_proc_node' = "NULL"
            /\ init_ret' = -ENOMEM
            /\ UNCHANGED << proc_entry, removes, loaded >>
  /\ op' = "init"
  /\ user_data' = << >>
  /\ write_ok' = FALSE
  /\ NoCall
  /\ received' = 0
  /\ UNCHANGED << file_open, offset >>

\* mutant: mydrv_exit that forgets proc_remove
mydrv_exit_no_remove ==
  /\ loaded
  /\ custom_proc_node' = "NULL"
  /\ loaded' = FALSE
  /\ file_open' = FALSE
  /\ op' = "exit"
  /\ NoCall
  /\ UNCHANGED << proc_entry, removes, init_ret, message_buffer, offset,
                  user_data, write_ok, received >>

\* rmmod: mydrv_exit runs; removing the entry ends every open file on it
mydrv_exit ==
  /\ loaded
  /\ IF custom_proc_node # "NULL"
       THEN /\ proc_entry' = FALSE
            /\ removes' = removes + 1
            /\ custom_proc_node' = "NULL"
       ELSE UNCHANGED << proc_entry, removes, custom_proc_node >>
  /\ loaded' = FALSE
  /\ file_open' = FALSE
  /\ op' = "exit"
  /\ NoCall
  /\ UNCHANGED << init_ret, message_buffer, offset, user_data, write_ok,
                  received >>

\* open(2) on the entry: driver_proc_ops has no open handler, the file
\* starts at position 0
Open ==
  /\ proc_entry
  /\ ~file_open
  /\ file_open' = TRUE
  /\ offset' = 0
  /\ op' = "open"
  /\ received' = 0
  /\ NoCall
  /\ UNCHANGED << loaded, custom_proc_node, proc_entry, removes, init_ret,
                  message_buffer, user_data, write_ok >>

\* close(2)
Close ==
  /\ file_open
  /\ file_open' = FALSE
  /\ op' = "close"
  /\ NoCall
  /\ UNCHANGED << loaded, custom_proc_node, proc_entry, removes, init_ret,
                  message_buffer, offset, user_data, write_ok, received >>

(* ------------------------------ ldd_read_proc -------------------------- *)

\* mutant: the count test is dropped
NothingToRead_no_count(off, cnt, len) == off >= len

\* if (*offset >= len || count < len) return 0;
NothingToRead(off, cnt, len) == off >= len \/ cnt < len

\* mutant: copy_to_user's return value is ignored
CopyFailed_ignored(left) == FALSE

\* if (copy_to_user(...)) / if (copy_from_user(...))
CopyFailed(left) == left # 0

\* mutant: *offset = len
AdvanceOffset_assign(off, len) == len

\* mutant: the offset is not advanced
AdvanceOffset_none(off, len) == off

\* *offset += len;
AdvanceOffset(off, len) == off + len

ldd_read_proc(cnt, fault) ==
  /\ file_open
  /\ LET len  == strlen(message_buffer)
         left == Uncopied(len, fault)
     IN  IF NothingToRead(offset, cnt, len)
           THEN /\ ret' = 0
                /\ user_space_buffer' = << >>
                /\ uncopied' = 0
                /\ UNCHANGED << offset, received >>
           ELSE /\ user_space_buffer' = copy_to_user(message_buffer, len, left)
                /\ uncopied' = left
                /\ IF CopyFailed(left)
                     THEN /\ ret' = -EFAULT
                          /\ UNCHANGED << offset, received >>
                     ELSE /\ ret' = len
                          /\ offset' = AdvanceOffset(offset, len)
                          /\ received' = received + 1
  /\ op' = "read"
  /\ count' = cnt
  /\ stores' = {}
  /\ UNCHANGED << loaded, custom_proc_node, proc_entry, removes, init_ret,
                  message_buffer, file_open, user_data, write_ok >>

(* ----------------------------- ldd_write_proc -------------------------- *)

\* mutant: the count is not truncated
ClipCount_none(cnt) == cnt

\* mutant: the count is truncated to sizeof(message_buffer)
ClipCount_to_sizeof(cnt) ==
  IF cnt > MAX_INPUT_SIZE + 1 THEN MAX_INPUT_SIZE + 1 ELSE cnt

\* if (count > MAX_INPUT_SIZE) count = MAX_INPUT_SIZE;
ClipCount(cnt) == IF cnt > MAX_INPUT_SIZE THEN MAX_INPUT_SIZE ELSE cnt

\* mutant: the terminator is not stored
Terminate_none(buf, n) == buf

\* message_buffer[count] = '\0';
Terminate(buf, n) == StoreByte(buf, n, NUL)

ldd_write_proc(data, fault) ==
  /\ file_open
  /\ LET n    == ClipCount(Len(data))
         left == Uncopied(n, fault)
         copied == copy_from_user(message_buffer, data, n, left)
     IN  /\ uncopied' = left
         /\ IF CopyFailed(left)
              THEN /\ ret' = -EFAULT
                   /\ message_buffer' = copied
                   /\ stores' = 0..(n - 1)
                   /\ write_ok' = FALSE
              ELSE /\ ret' = n
                   /\ message_buffer' = Terminate(copied, n)
                   /\ stores' = (0..(n - 1)) \cup {n}
                   /\ write_ok' = TRUE
  /\ op' = "write"
  /\ count' = Len(data)
  /\ user_data' = data
  /\ user_space_buffer' = << >>
  /\ received' = 0
  /\ UNCHANGED << loaded, custom_proc_node, proc_entry, removes, init_ret,
                  file_open, offset >>

(* ----------------------------- specification --------------------------- *)

Load == (\E created \in BOOLEAN : mydrv_init(created)) /\ UNCHANGED concvars

Unload == mydrv_exit /\ UNCHANGED concvars

OpenFile == Open /\ UNCHANGED concvars

CloseFile == Close /\ UNCHANGED concvars

Read ==
  /\ \E cnt \in ReadCounts, fault \in Faults : ldd_read_proc(cnt, fault)
  /\ UNCHANGED concvars

Write ==
  /\ \E cnt \in WriteCounts, fill \in Fills, z \in NulAt, fault \in Faults :
       ldd_write_proc(UserData(cnt, fill, z), fault)
  /\ UNCHANGED concvars

Next == Load \/ Unload \/ OpenFile \/ CloseFile \/ Read \/ Write

Spec == Init /\ [][Next]_vars

TypeOK ==
  /\ loaded \in BOOLEAN
  /\ custom_proc_node \in {"NULL", "node"}
  /\ message_buffer \in [BufIdx -> Int]
  /\ offset \in Nat


(* ------------------- the handlers, one byte at a time ------------------ *)

\* SpecConc starts with the module loaded and a file open on the entry
InitConc ==
  /\ loaded = TRUE
  /\ custom_proc_node = "node"
  /\ proc_entry = TRUE
  /\ removes = 0
  /\ init_ret = 0
  /\ message_buffer = InitialBuffer
  /\ file_open = TRUE
  /\ offset = 0
  /\ op = "open"
  /\ ret = 0
  /\ count = 0
  /\ user_data = << >>
  /\ write_ok = FALSE
  /\ user_space_buffer = << >>
  /\ stores = {}
  /\ uncopied = 0
  /\ received = 0
  /\ r_pc = "idle"
  /\ r_count = 0
  /\ r_i = 0
  /\ r_len = -1
  /\ r_j = 0
  /\ r_ret = 0
  /\ r_scanned = -1
  /\ r_copied = -1
  /\ w_pc = "idle"
  /\ w_data = << 0, 0, -1 >>
  /\ w_n = 0
  /\ w_k = 0
  /\ w_ret = 0
  /\ w_stored = -1

Max(a, b) == IF a > b THEN a ELSE b

\* ldd_read_proc is entered (pread at position 0, so *offset is 0)
RStart(cnt) ==
  /\ r_pc = "idle"
  /\ r_pc' = "strlen"
  /\ r_count' = cnt
  /\ r_i' = 0
  /\ r_len' = -1
  /\ r_j' = 0
  /\ r_ret' = 0
  /\ r_scanned' = -1
  /\ r_copied' = -1
  /\ UNCHANGED << message_buffer, seqvars, writervars >>

\* strlen examines one byte.  A byte past the array is whatever memory holds
\* there: NUL or not.  On a NUL, len is set and line 44 is evaluated.
RScan ==
  /\ r_pc = "strlen"
  /\ \E b \in (IF r_i \in BufIdx THEN {message_buffer[r_i]} ELSE {NUL, -1}) :
       /\ r_scanned' = Max(r_scanned, r_i)
       /\ IF b # NUL
            THEN /\ r_i' = r_i + 1
                 /\ UNCHANGED << r_pc, r_len, r_ret >>
            ELSE /\ r_len' = r_i
                 /\ r_i' = 0
                 /\ IF NothingToRead(0, r_count, r_i)
                      THEN r_pc' = "idle" /\ r_ret' = 0
                      ELSE r_pc' = "copy" /\ r_ret' = 0
  /\ UNCHANGED << r_count, r_j, r_copied >>
  /\ UNCHANGED << message_buffer, seqvars, writervars >>

\* copy_to_user moves one byte, or has moved them all and the handler returns
RCopy ==
  /\ r_pc = "copy"
  /\ IF r_j < r_len
       THEN /\ r_copied' = Max(r_copied, r_j)
            /\ r_j' = r_j + 1
            /\ UNCHANGED << r_pc, r_ret >>
       ELSE /\ r_pc' = "idle"
            /\ r_ret' = r_len
            /\ UNCHANGED << r_j, r_copied >>
  /\ UNCHANGED << r_count, r_i, r_len, r_scanned >>
  /\ UNCHANGED << message_buffer, seqvars, writervars >>

\* copy_to_user faults at byte r_j: the handler returns -EFAULT
RFault ==
  /\ r_pc = "copy"
  /\ r_j < r_len
  /\ r_j \in Faults
  /\ r_pc' = "idle"
  /\ r_ret' = -EFAULT
  /\ UNCHANGED << r_count, r_i, r_len, r_j, r_scanned, r_copied >>
  /\ UNCHANGED << message_buffer, seqvars, writervars >>

\* ldd_write_proc is entered and truncates its count
WStart(d) ==
  /\ w_pc = "idle"
  /\ w_pc' = (IF ClipCount(d[1]) > 0 THEN "copy" ELSE "term")
  /\ w_data' = d
  /\ w_n' = ClipCount(d[1])
  /\ w_k' = 0
  /\ w_ret' = 0
  /\ w_stored' = -1
  /\ UNCHANGED << message_buffer, seqvars, readervars >>

\* copy_from_user stores one byte
WCopy ==
  /\ w_pc = "copy"
  /\ w_k < w_n
  /\ message_buffer' = StoreByte(message_buffer, w_k, UserByte(w_data[2], w_data[3], w_k))
  /\ w_stored' = Max(w_stored, w_k)
  /\ w_k' = w_k + 1
  /\ w_pc' = (IF w_k + 1 < w_n THEN "copy" ELSE "term")
  /\ UNCHANGED << w_data, w_n, w_ret >>
  /\ UNCHANGED << seqvars, readervars >>

\* copy_from_user faults at byte w_k: the rest of the destination is
\* zero-filled and the handler returns -EFAULT
WFault ==
  /\ w_pc = "copy"
  /\ w_k < w_n
  /\ w_k \in Faults
  /\ message_buffer' =
       [i \in DOMAIN message_buffer |->
          IF w_k <= i /\ i < w_n THEN NUL ELSE message_buffer[i]]
  /\ w_stored' = Max(w_stored, w_n - 1)
  /\ w_pc' = "idle"
  /\ w_ret' = -EFAULT
  /\ UNCHANGED << w_data, w_n, w_k >>
  /\ UNCHANGED << seqvars, readervars >>

\* message_buffer[count] = '\0'; return count;
WTerm ==
  /\ w_pc = "term"
  /\ message_buffer' = Terminate(message_buffer, w_n)
  /\ w_stored' = Max(w_stored, w_n)
  /\ w_pc' = "idle"
  /\ w_ret' = w_n
  /\ UNCHANGED << w_data, w_n, w_k >>
  /\ UNCHANGED << seqvars, readervars >>

ReadBegin == \E cnt \in ConcReadCounts : RStart(cnt)

WriteBegin == \E d \in ConcWriteData : WStart(d)

NextConc ==
  ReadBegin \/ RScan \/ RCopy \/ RFault \/ WriteBegin \/ WCopy \/ WFault \/ WTerm

SpecConc == InitConc /\ [][NextConc]_vars

(* ------------------------------- properties ---------------------------- *)

Min(a, b) == IF a < b THEN a ELSE b

\* the first n elements of a sequence
Prefix(w, n) == [i \in 1..n |-> w[i]]

\* the stored message: the bytes of buf before its first NUL
Message(buf) == [i \in 1..strlen(buf) |-> LoadByte(buf, i - 1)]

\* the bytes 0..n-1 of data contain no NUL
NoNulIn(data, n) == \A i \in 1..n : data[i] # NUL

\* C1 (as stated): after a successful write of any byte sequence w, a read at
\* file offset 0 with a user buffer of at least MAX_INPUT_SIZE bytes, with no
\* other write in between and no fault in the read's own copy, returns
\* min(|w|, MAX_INPUT_SIZE) and delivers exactly that prefix of w.
C1_RoundTripAnyBytes ==
  [][ ( /\ op' = "read"
        /\ write_ok
        /\ offset = 0
        /\ count' >= MAX_INPUT_SIZE
        /\ uncopied' = 0 )
      => LET n == Min(Len(user_data), MAX_INPUT_SIZE)
         IN  /\ ret' = n
             /\ user_space_buffer' = Prefix(user_data, n) ]_vars

\* C1 (amended): the round trip holds for every w whose first
\* min(|w|, MAX_INPUT_SIZE) bytes contain no NUL byte, when the read's copy
\* to user space does not fault.
C1_RoundTripText ==
  [][ ( /\ op' = "read"
        /\ write_ok
        /\ offset = 0
        /\ count' >= MAX_INPUT_SIZE
        /\ uncopied' = 0
        /\ NoNulIn(user_data, Min(Len(user_data), MAX_INPUT_SIZE)) )
      => LET n == Min(Len(user_data), MAX_INPUT_SIZE)
         IN  /\ ret' = n
             /\ user_space_buffer' = Prefix(user_data, n) ]_vars

\* a write longer than the capacity was read back, truncated to the capacity
C1_Witness ==
  /\ op = "read"
  /\ write_ok
  /\ Len(user_data) > MAX_INPUT_SIZE
  /\ ret = MAX_INPUT_SIZE
  /\ offset = MAX_INPUT_SIZE
  /\ user_space_buffer = Prefix(user_data, MAX_INPUT_SIZE)

\* C2: a successful write of count bytes returns n = min(count,
\* MAX_INPUT_SIZE), leaves message_buffer[0..n-1] equal to the first n user
\* bytes and message_buffer[n] = NUL, and stores to no index above
\* MAX_INPUT_SIZE.
C2_WriteResult ==
  (op = "write" /\ ret >= 0) =>
    /\ ret = Min(count, MAX_INPUT_SIZE)
    /\ \A i \in 0..(ret - 1) : LoadByte(message_buffer, i) = user_data[i + 1]
    /\ LoadByte(message_buffer, ret) = NUL
    /\ \A i \in stores : i <= MAX_INPUT_SIZE

\* a truncated write: more than MAX_INPUT_SIZE bytes offered, index
\* MAX_INPUT_SIZE stored to
C2_Witness ==
  /\ op = "write"
  /\ count > MAX_INPUT_SIZE
  /\ ret = MAX_INPUT_SIZE
  /\ MAX_INPUT_SIZE \in stores

C4_ReadResult ==
  [][ op' = "read" =>
        LET L == strlen(message_buffer)
        IN  /\ ret' \in {0, -EFAULT, L}
            /\ ret' > 0 => /\ offset < L
                           /\ L <= count'
                           /\ user_space_buffer' = Message(message_buffer)
            /\ ret' <= count'
            /\ ret' <= L
            /\ count' < L => (ret' = 0 /\ user_space_buffer' = << >>) ]_vars

\* a read whose count equals the message length got the whole message
C4_Witness ==
  /\ op = "read"
  /\ ret > 0
  /\ ret = count
  /\ user_space_buffer = Message(message_buffer)

\* C5: a read or write whose user-space copy fails returns -EFAULT; a read or
\* write returns a negative value only when its copy failed; a failed read
\* leaves the file offset and message_buffer unchanged.
C5_CopyFailure ==
  [][ op' \in {"read", "write"} =>
        /\ uncopied' # 0 => ret' = -EFAULT
        /\ ret' < 0 => (uncopied' # 0 /\ ret' = -EFAULT)
        /\ (op' = "read" /\ ret' < 0) =>
              (offset' = offset /\ message_buffer' = message_buffer) ]_vars

\* the copy_to_user of a read faulted
C5_Witness ==
  /\ op = "read"
  /\ ret = -EFAULT
  /\ uncopied > 0
  /\ uncopied <= strlen(message_buffer)

\* C6: a read that returns r > 0 advances the offset by r; a read that
\* returns 0 or a negative errno leaves it unchanged; a write never changes it.
C6_OffsetFrame ==
  [][ /\ op' = "read" => /\ ret' > 0 => offset' = offset + ret'
                         /\ ret' <= 0 => offset' = offset
      /\ op' = "write" => offset' = offset ]_vars

\* a read advanced an offset that was already non-zero
C6_Witness ==
  /\ op = "read"
  /\ ret > 0
  /\ offset > ret

\* C7: mydrv_init returns 0 when the proc entry is created and -1 when
\* proc_create fails.
C7_InitReturn ==
  op = "init" =>
    /\ custom_proc_node # "NULL" => init_ret = 0
    /\ custom_proc_node = "NULL" => init_ret = -1

\* C8: the proc entry is registered exactly while a load has succeeded and no
\* unload has followed; a failed load leaves none; after unload
\* custom_proc_node is NULL, no entry is registered and proc_remove ran at
\* most once for the registration; each load starts from the initial greeting.
C8_Lifecycle ==
  /\ proc_entry <=> loaded
  /\ proc_entry <=> (custom_proc_node # "NULL")
  /\ removes <= 1
  /\ (op = "init" /\ init_ret # 0) => ~proc_entry
  /\ op = "exit" => (custom_proc_node = "NULL" /\ ~proc_entry /\ removes = 1)
  /\ op = "init" => message_buffer = InitialBuffer

\* the module was unloaded after its buffer had been overwritten
C8_Witness ==
  /\ op = "exit"
  /\ removes = 1
  /\ ~proc_entry
  /\ message_buffer # InitialBuffer

\* C9: on one open file with no write in between, every read after a read
\* that returned > 0 returns 0, so the message is received at most once
\* (exactly once by a reader that received it); a read returns > 0 only if
\* the message is strictly longer than the file's offset, and then delivers
\* the whole message from its first byte.
C9_EndOfFile ==
  [][ /\ (op' = "read" /\ received >= 1) => ret' = 0
      /\ received' <= 1
      /\ (op' = "read" /\ ret' > 0) =>
            /\ offset < strlen(message_buffer)
            /\ ret' = strlen(message_buffer)
            /\ user_space_buffer' = Message(message_buffer) ]_vars

\* end of file: a read returned 0 after the message had been received once
C9_Witness ==
  /\ op = "read"
  /\ received = 1
  /\ ret = 0
  /\ count >= strlen(message_buffer)


\* C10: under every interleaving of the byte-wise steps of a read handler and
\* a write handler, the length the read computes is at most MAX_INPUT_SIZE,
\* the read copies out no byte from beyond message_buffer[0..MAX_INPUT_SIZE-1]
\* (and its strlen loads none beyond message_buffer[MAX_INPUT_SIZE]), and the
\* write stores to no index above MAX_INPUT_SIZE.
C10_MemorySafe ==
  /\ r_len <= MAX_INPUT_SIZE
  /\ r_scanned <= MAX_INPUT_SIZE
  /\ r_copied <= MAX_INPUT_SIZE - 1
  /\ r_pc = "copy" => r_j <= r_len
  /\ w_stored <= MAX_INPUT_SIZE
  /\ message_buffer[MAX_INPUT_SIZE] = NUL

\* a read that raced with a write in progress computed a length that is
\* neither the old nor the new message length, and copied it out
C10_Witness ==
  /\ r_pc = "copy"
  /\ w_pc = "copy"
  /\ r_len > Len(Greeting)
  /\ r_len < MAX_INPUT_SIZE
  /\ r_copied = r_len - 1

============================================================================
